---------------------------- MODULE Spec2Model ----------------------------
(***************************************************************************)
(* Model of draw_triangle.cc: the transform library (ComputeTranslation,   *)
(* ComputeRotation, the two ComputeProjectionMatrix overloads), the key    *)
(* callback, class Model, RenderScene and the driver main().  Three         *)
(* specifications: Spec (main), SpecLib (one call of a library function),  *)
(* SpecModel (one Model object and calls of its setters).                  *)
(*                                                                         *)
(* Numbers.  GLfloat values are modelled as exact values, rounding is not  *)
(* modelled.  A value is a finite linear combination, with rational        *)
(* coefficients, of symbols sin(x), cos(x), tan(x) (and their powers) for  *)
(* the arguments x at which the program evaluates them; sin, cos and tan   *)
(* of a non-zero rational are irrational, so they are kept as symbols and  *)
(* never replaced by an approximation.  A rational is a pair <<n, d>> in   *)
(* lowest terms with d > 0.                                                *)
(***************************************************************************)
EXTENDS Integers, Sequences, FiniteSets, TLC

-----------------------------------------------------------------------------
(* Bounds of the model.                                                    *)

\* Frames the model lets the loop render.
MaxFrames == 3
\* Largest clock reading, in ticks.
MaxClock == 3
\* Clock ticks per second: the resolution at which glfwGetTime is sampled.
TicksPerSecond == 20
\* Input events one glfwPollEvents call dispatches at most.
MaxEvents == 2
\* Largest magnitude of an integer frustum bound drawn for the library checks.
MaxCoord == 2

-----------------------------------------------------------------------------
(* Rationals.                                                              *)

Abs(n) == IF n < 0 THEN -n ELSE n

RECURSIVE GCD(_, _)
GCD(a, b) == IF b = 0 THEN a ELSE GCD(b, a % b)

\* n/d in lowest terms with a positive denominator (d # 0).
Norm(n, d) ==
  LET g == GCD(Abs(n), Abs(d))
      s == IF d < 0 THEN -1 ELSE 1
  IN  <<(s * n) \div g, (s * d) \div g>>

Zero == <<0, 1>>
One == <<1, 1>>
R(n) == <<n, 1>>

RAdd(a, b) == Norm(a[1] * b[2] + b[1] * a[2], a[2] * b[2])
RNeg(a) == <<-a[1], a[2]>>
RSub(a, b) == RAdd(a, RNeg(b))
RMul(a, b) == Norm(a[1] * b[1], a[2] * b[2])
RInv(a) == Norm(a[2], a[1])
RDiv(a, b) == RMul(a, RInv(b))
RLess(a, b) == a[1] * b[2] < b[1] * a[2]

-----------------------------------------------------------------------------
(* Values: key |-> non-zero rational coefficient.  A key <<fn, n, d, p, e>> *)
(* denotes fn(x)^e with x = n/d (p = 0) or x = (n/d) * pi (p = 1);         *)
(* OneKey denotes 1.                                                       *)

OneKey == <<"one", 0, 1, 0, 0>>
EmptyVal == [k \in {} |-> Zero]

V(r) == IF r = Zero THEN EmptyVal ELSE [k \in {OneKey} |-> r]
VInt(n) == V(R(n))
Sym(fn, x, p) == [k \in {<<fn, x[1], x[2], p, 1>>} |-> One]

Coef(a, k) == IF k \in DOMAIN a THEN a[k] ELSE Zero
IsConst(a) == DOMAIN a \subseteq {OneKey}
ConstOf(a) == Coef(a, OneKey)

VAdd(a, b) ==
  LET ks == DOMAIN a \cup DOMAIN b
      nz == {k \in ks : RAdd(Coef(a, k), Coef(b, k)) # Zero}
  IN  [k \in nz |-> RAdd(Coef(a, k), Coef(b, k))]
VScale(r, a) == IF r = Zero THEN EmptyVal ELSE [k \in DOMAIN a |-> RMul(r, a[k])]
VNeg(a) == VScale(R(-1), a)
VSub(a, b) == VAdd(a, VNeg(b))

\* Product; one factor is a constant in every product the program forms.
VMul(a, b) ==
  CASE IsConst(a) -> VScale(ConstOf(a), b)
    [] IsConst(b) -> VScale(ConstOf(b), a)

KInv(k) == IF k = OneKey THEN OneKey ELSE <<k[1], k[2], k[3], k[4], -k[5]>>

\* Quotient; the divisor is a single non-zero term in every quotient formed.
VDiv(a, b) ==
  LET k == CHOOSE kk \in DOMAIN b : TRUE
  IN  CASE Cardinality(DOMAIN b) = 1 ->
             VMul(a, [kk \in {KInv(k)} |-> RInv(b[k])])

\* sin, cos, tan of a rational number of radians.
Sin(x) ==
  IF x = Zero THEN EmptyVal
  ELSE IF x[1] < 0 THEN VNeg(Sym("sin", RNeg(x), 0)) ELSE Sym("sin", x, 0)
Cos(x) ==
  IF x = Zero THEN V(One)
  ELSE IF x[1] < 0 THEN Sym("cos", RNeg(x), 0) ELSE Sym("cos", x, 0)
Tan(x) ==
  IF x = Zero THEN EmptyVal
  ELSE IF x[1] < 0 THEN VNeg(Sym("tan", RNeg(x), 0)) ELSE Sym("tan", x, 0)

-----------------------------------------------------------------------------
(* Vectors and 4x4 matrices.  A matrix is a tuple of four rows; the        *)
(* source's zero-based (row, column) indices are kept by At and Put.       *)

Vec3(x, y, z) == <<x, y, z>>
UnitZ == Vec3(EmptyVal, EmptyVal, V(One))

Identity ==
  [i \in 1..4 |-> [j \in 1..4 |-> IF i = j THEN V(One) ELSE EmptyVal]]

At(M, i, j) == M[i + 1][j + 1]
Put(M, i, j, v) == [M EXCEPT ![i + 1][j + 1] = v]

\* Eigen: transformation.col(3) = offset.homogeneous()
SetCol3(M, h) == [i \in 1..4 |-> [M[i] EXCEPT ![4] = h[i]]]
Homogeneous(v) == <<v[1], v[2], v[3], V(One)>>

\* Eigen: transformation.block(0, 0, 3, 3) = rot3
SetBlock3(M, B) ==
  [i \in 1..4 |-> [j \in 1..4 |->
     IF i <= 3 /\ j <= 3 THEN B[i][j] ELSE M[i][j]]]

\* Eigen: operator* of two 4x4 matrices.
MatMul(A, B) ==
  [i \in 1..4 |-> [j \in 1..4 |->
     VAdd(VAdd(VMul(A[i][1], B[1][j]), VMul(A[i][2], B[2][j])),
          VAdd(VMul(A[i][3], B[3][j]), VMul(A[i][4], B[4][j])))]]

-----------------------------------------------------------------------------
(* Transform library.  Scalar parameters are values; an angle passed to    *)
(* sin, cos or tan is a constant (rational) value.                         *)

Half == <<1, 2>>
VSin(a) == Sin(ConstOf(a))
VCos(a) == Cos(ConstOf(a))
VTan(a) == Tan(ConstOf(a))

\* Variant of ComputeTranslation that writes the offset into the last row.
ComputeTranslationRow(offset) == [Identity EXCEPT ![4] = Homogeneous(offset)]

ComputeTranslation(offset) == SetCol3(Identity, Homogeneous(offset))

\* Eigen::AngleAxisf(angle, axis).matrix(): the rotation by angle about the
\* unit vector axis, as AngleAxis::toRotationMatrix computes it.
AngleAxisMatrix(angle, axis) ==
  LET s == VSin(angle)
      c == VCos(angle)
      sin_axis == [i \in 1..3 |-> VMul(s, axis[i])]
      cos1_axis == [i \in 1..3 |-> VMul(VSub(V(One), c), axis[i])]
      txy == VMul(cos1_axis[1], axis[2])
      txz == VMul(cos1_axis[1], axis[3])
      tyz == VMul(cos1_axis[2], axis[3])
  IN  << <<VAdd(VMul(cos1_axis[1], axis[1]), c),
           VSub(txy, sin_axis[3]),
           VAdd(txz, sin_axis[2])>>,
         <<VAdd(txy, sin_axis[3]),
           VAdd(VMul(cos1_axis[2], axis[2]), c),
           VSub(tyz, sin_axis[1])>>,
         <<VSub(txz, sin_axis[2]),
           VAdd(tyz, sin_axis[1]),
           VAdd(VMul(cos1_axis[3], axis[3]), c)>> >>

ComputeRotation(axis, angle) == SetBlock3(Identity, AngleAxisMatrix(angle, axis))

\* Variant of the general form that leaves the identity's (3, 3) entry in place.
ComputeProjectionMatrixKeepsW(left, right, top, bottom, near, far) ==
  LET p0 == Identity
      p1 == Put(p0, 0, 0, VDiv(VMul(VInt(2), near), VSub(right, left)))
      p2 == Put(p1, 1, 1, VDiv(VMul(VInt(2), near), VSub(top, bottom)))
      p3 == Put(p2, 2, 2, VDiv(VNeg(VAdd(far, near)), VSub(far, near)))
      p4 == Put(p3, 0, 2, VDiv(VAdd(right, left), VSub(right, left)))
      p5 == Put(p4, 1, 2, VDiv(VAdd(top, bottom), VSub(top, bottom)))
      p6 == Put(p5, 2, 3, VDiv(VMul(VMul(VInt(-2), far), near), VSub(far, near)))
  IN  Put(p6, 3, 2, VInt(-1))

\* General form.
ComputeProjectionMatrix(left, right, top, bottom, near, far) ==
  LET p0 == Identity
      p1 == Put(p0, 0, 0, VDiv(VMul(VInt(2), near), VSub(right, left)))
      p2 == Put(p1, 1, 1, VDiv(VMul(VInt(2), near), VSub(top, bottom)))
      p3 == Put(p2, 2, 2, VDiv(VNeg(VAdd(far, near)), VSub(far, near)))
      p4 == Put(p3, 0, 2, VDiv(VAdd(right, left), VSub(right, left)))
      p5 == Put(p4, 1, 2, VDiv(VAdd(top, bottom), VSub(top, bottom)))
      p6 == Put(p5, 2, 3, VDiv(VMul(VMul(VInt(-2), far), near), VSub(far, near)))
      p7 == Put(p6, 3, 3, EmptyVal)
  IN  Put(p7, 3, 2, VInt(-1))

\* GLfloat pi = 3.1416f
Pi == Norm(31416, 10000)

\* Field-of-view form: delegates to the general form.
ComputeProjectionMatrixFov(field_of_view, aspect_ratio, near, far) ==
  LET pi == V(Pi)
      top == VMul(near,
                  VTan(VMul(VMul(VDiv(pi, VInt(180)), field_of_view), V(Half))))
      bottom == VNeg(top)
      right == VMul(top, aspect_ratio)
      left == VNeg(right)
  IN  ComputeProjectionMatrix(left, right, top, bottom, near, far)

\* Variant of the model matrix whose depth offset uses sin(angle).
ModelMatrixFullAngle(angle) ==
  LET translation ==
        ComputeTranslation(Vec3(EmptyVal, EmptyVal, VSub(VSin(angle), V(One))))
      rotation == ComputeRotation(UnitZ, angle)
  IN  MatMul(translation, rotation)

\* The model matrix RenderScene builds for an angle.
ModelMatrix(angle) ==
  LET translation ==
        ComputeTranslation(
          Vec3(EmptyVal, EmptyVal, VSub(VSin(VMul(V(Half), angle)), V(One))))
      rotation == ComputeRotation(UnitZ, angle)
  IN  MatMul(translation, rotation)

-----------------------------------------------------------------------------
(* State of main() and of the services it drives.                          *)

VARIABLES
  pc,                 \* position in main()
  glfw,               \* windowing service: "down", "up", "terminated"
  window,             \* "none", "open", "destroyed"
  shouldClose,        \* the window's should-close flag
  keyCallback,        \* TRUE once glfwSetKeyCallback(window, KeyCallback) ran
  createOk,           \* what shader_program.Create returned
  programId,          \* shader_program.shader_program_id()
  vao,                \* vertex array object: "none", "created", "deleted"
  vbo,                \* vertex buffer object: "none", "created", "deleted"
  projection_matrix,  \* main's projection_matrix, <<>> before its definition
  angle,              \* main's angle
  clock,              \* last reading of glfwGetTime, in ticks
  uniforms,           \* the matrices last uploaded to the shader program
  exit_code,          \* <<>> while running, <<c>> once main returned c
  frames,             \* history: RenderScene calls so far
  projComputes,       \* history: ComputeProjectionMatrix calls so far
  failed,             \* history: the initialization stage that failed
  closeObserved,      \* history: the loop condition saw the flag set
  rendersAfterClose,  \* history: RenderScene calls started with the flag set
  visited,            \* history: lifecycle states passed through
  dispatched,         \* events dispatched by the running glfwPollEvents call
  lastEvent,          \* the event dispatched last
  libCall,            \* library function called on its own, "none" in main()
  libArgs,            \* its arguments
  libResult,          \* its result, <<>> before the call
  glCalls,            \* the calls the last RenderScene made, in order
  boundVao,           \* the vertex array bound: "0" or "vertex_array_object_id"
  vaoGens,            \* history: glGenVertexArrays calls
  vboGens,            \* history: glGenBuffers calls
  vaoDeletes,         \* history: glDeleteVertexArrays calls
  vboDeletes,         \* history: glDeleteBuffers calls
  swaps,              \* history: glfwSwapBuffers calls
  polls,              \* history: glfwPollEvents calls that returned
  prevClock,          \* history: the clock reading of the frame before, or -1
  modelObj,           \* a Model object's fields, <<>> while none exists
  modelArgs,          \* history: the value each field was last given
  modelCall           \* history: the Model member called last

mainVars ==
  <<pc, glfw, window, shouldClose, keyCallback, createOk, programId, vao, vbo,
    projection_matrix, angle, clock, uniforms, exit_code, frames, projComputes,
    failed, closeObserved, rendersAfterClose, visited, dispatched, lastEvent>>
libVars == <<libCall, libArgs, libResult>>
callVars ==
  <<glCalls, boundVao, vaoGens, vboGens, vaoDeletes, vboDeletes, swaps, polls,
    prevClock>>
objVars == <<modelObj, modelArgs, modelCall>>
vars == <<mainVars, libVars, callVars, objVars>>

\* The lifecycle state main() is in at each position.
Lifecycle(p) ==
  CASE p \in {"init", "create_window"} -> "Uninitialized"
    [] p \in {"context", "glew"} -> "WindowReady"
    [] p \in {"shaders", "check_program"} -> "ContextReady"
    [] p = "buffers" -> "ShadersReady"
    [] p = "projection" -> "BuffersReady"
    [] p \in {"loop", "render", "swap", "poll"} -> "Running"
    [] p \in {"abort_window", "abort_glew", "cleanup", "destroy", "terminate"}
         -> "ShuttingDown"
    [] p = "done" -> "Terminated"
    [] p = "library" -> "Library"
    [] p = "object" -> "Object"

\* Goes to position p, recording the lifecycle state entered.
Goto(p) ==
  /\ pc' = p
  /\ visited' = visited \cup {Lifecycle(p)}

NoEvent == [type |-> "none", key |-> "NONE", action |-> "NONE"]
Keys == {"ESCAPE", "A"}
KeyActions == {"PRESS", "RELEASE", "REPEAT"}

\* What Create and shader_program_id() can report: success with a program,
\* a compile failure with no program, a link failure with a program object.
ShaderCreateOutcomes ==
  {[ok |-> TRUE, id |-> 1], [ok |-> FALSE, id |-> 0], [ok |-> FALSE, id |-> 1]}

NoUniforms == [model |-> <<>>, view |-> <<>>, projection |-> <<>>]

\* The state in which execution starts at position p.
Start(p) ==
  /\ pc = p
  /\ glfw = "down"
  /\ window = "none"
  /\ shouldClose = FALSE
  /\ keyCallback = FALSE
  /\ createOk = FALSE
  /\ programId = 0
  /\ vao = "none"
  /\ vbo = "none"
  /\ projection_matrix = <<>>
  /\ angle = EmptyVal
  /\ clock = 0
  /\ uniforms = NoUniforms
  /\ exit_code = <<>>
  /\ frames = 0
  /\ projComputes = 0
  /\ failed = "none"
  /\ closeObserved = FALSE
  /\ rendersAfterClose = 0
  /\ visited = {Lifecycle(p)}
  /\ dispatched = 0
  /\ lastEvent = NoEvent
  /\ glCalls = <<>>
  /\ boundVao = "0"
  /\ vaoGens = 0
  /\ vboGens = 0
  /\ vaoDeletes = 0
  /\ vboDeletes = 0
  /\ swaps = 0
  /\ polls = 0
  /\ prevClock = -1

\* No library call is pending.
LibIdle ==
  /\ libCall = "none"
  /\ libArgs = <<>>
  /\ libResult = <<>>

\* Variant of main's start that constructs a Model for the triangle.
ModelAtStartup ==
  /\ modelObj = [orientation_ |-> <<Zero, Zero, One>>,
                 position_ |-> <<Zero, Zero, Zero>>,
                 vertices_ |-> <<>>]
  /\ modelArgs = modelObj
  /\ modelCall = "Model"

\* No Model object exists: main() constructs none.
NoModel ==
  /\ modelObj = <<>>
  /\ modelArgs = <<>>
  /\ modelCall = "none"

Init ==
  /\ Start("init")
  /\ LibIdle
  /\ NoModel

-----------------------------------------------------------------------------
(* Initialization.                                                         *)

\* if (!glfwInit()) return -1;
GlfwInit ==
  /\ pc = "init"
  /\ \E ok \in BOOLEAN :
       IF ok
       THEN /\ glfw' = "up"
            /\ Goto("create_window")
            /\ UNCHANGED <<failed, exit_code>>
       ELSE /\ failed' = "glfwInit"
            /\ exit_code' = <<-1>>
            /\ Goto("done")
            /\ UNCHANGED glfw
  /\ UNCHANGED <<window, shouldClose, keyCallback, createOk, programId, vao,
                 vbo, projection_matrix, angle, clock, uniforms, frames,
                 projComputes, closeObserved, rendersAfterClose, dispatched,
                 lastEvent, libVars, callVars, objVars>>

\* glfwSetErrorCallback, SetWindowHints, glfwCreateWindow, if (!window)
CreateWindow ==
  /\ pc = "create_window"
  /\ \E ok \in BOOLEAN :
       IF ok
       THEN /\ window' = "open"
            /\ Goto("context")
            /\ UNCHANGED failed
       ELSE /\ failed' = "window"
            /\ Goto("abort_window")
            /\ UNCHANGED window
  /\ UNCHANGED <<glfw, shouldClose, keyCallback, createOk, programId, vao, vbo,
                 projection_matrix, angle, clock, uniforms, exit_code, frames,
                 projComputes, closeObserved, rendersAfterClose, dispatched,
                 lastEvent, libVars, callVars, objVars>>

\* glfwTerminate(); return -1;   (no window)
WindowFailed ==
  /\ pc = "abort_window"
  /\ glfw' = "terminated"
  /\ exit_code' = <<-1>>
  /\ Goto("done")
  /\ UNCHANGED <<window, shouldClose, keyCallback, createOk, programId, vao,
                 vbo, projection_matrix, angle, clock, uniforms, frames,
                 projComputes, failed, closeObserved, rendersAfterClose,
                 dispatched, lastEvent, libVars, callVars, objVars>>

\* glfwMakeContextCurrent, glfwSwapInterval, glfwSetKeyCallback
MakeContextCurrent ==
  /\ pc = "context"
  /\ keyCallback' = TRUE
  /\ Goto("glew")
  /\ UNCHANGED <<glfw, window, shouldClose, createOk, programId, vao, vbo,
                 projection_matrix, angle, clock, uniforms, exit_code, frames,
                 projComputes, failed, closeObserved, rendersAfterClose,
                 dispatched, lastEvent, libVars, callVars, objVars>>

\* if (glewInit() != GLEW_OK)
GlewInit ==
  /\ pc = "glew"
  /\ \E ok \in BOOLEAN :
       IF ok
       THEN /\ Goto("shaders")
            /\ UNCHANGED failed
       ELSE /\ failed' = "glewInit"
            /\ Goto("abort_glew")
  /\ UNCHANGED <<glfw, window, shouldClose, keyCallback, createOk, programId,
                 vao, vbo, projection_matrix, angle, clock, uniforms,
                 exit_code, frames, projComputes, closeObserved,
                 rendersAfterClose, dispatched, lastEvent, libVars, callVars,
                 objVars>>

\* std::cerr << ...; glfwTerminate(); return -1;   (no extension loader)
GlewFailed ==
  /\ pc = "abort_glew"
  /\ glfw' = "terminated"
  /\ exit_code' = <<-1>>
  /\ Goto("done")
  /\ UNCHANGED <<window, shouldClose, keyCallback, createOk, programId, vao,
                 vbo, projection_matrix, angle, clock, uniforms, frames,
                 projComputes, failed, closeObserved, rendersAfterClose,
                 dispatched, lastEvent, libVars, callVars, objVars>>

\* ConfigureViewPort, Load...ShaderFromString, Create(&error_info_log); a
\* failure reported by Create is printed and nothing else.
CreateShaders ==
  /\ pc = "shaders"
  /\ \E o \in ShaderCreateOutcomes :
       /\ createOk' = o.ok
       /\ programId' = o.id
  /\ Goto("check_program")
  /\ UNCHANGED <<glfw, window, shouldClose, keyCallback, vao, vbo,
                 projection_matrix, angle, clock, uniforms, exit_code, frames,
                 projComputes, failed, closeObserved, rendersAfterClose,
                 dispatched, lastEvent, libVars, callVars, objVars>>

\* Variant of CheckProgram that goes on whatever the program id is.
CheckProgramUnchecked ==
  /\ pc = "check_program"
  /\ Goto("buffers")
  /\ UNCHANGED <<glfw, window, shouldClose, keyCallback, createOk, programId,
                 vao, vbo, projection_matrix, angle, clock, uniforms, frames,
                 projComputes, closeObserved, rendersAfterClose, dispatched,
                 lastEvent, libVars, callVars, objVars, failed,
                 exit_code>>

\* if (!shader_program.shader_program_id()) { ...; return -1; }
CheckProgram ==
  /\ pc = "check_program"
  /\ IF programId = 0
     THEN /\ failed' = "shader"
          /\ exit_code' = <<-1>>
          /\ Goto("done")
     ELSE /\ Goto("buffers")
          /\ UNCHANGED <<failed, exit_code>>
  /\ UNCHANGED <<glfw, window, shouldClose, keyCallback, createOk, programId,
                 vao, vbo, projection_matrix, angle, clock, uniforms, frames,
                 projComputes, closeObserved, rendersAfterClose, dispatched,
                 lastEvent, libVars, callVars, objVars>>

\* SetVertexBufferObject: glGenBuffers and the upload; the buffer it returns.
SetVertexBufferObject == "created"

\* SetVertexArrayObject(&vertex_buffer_object_id, &vertex_array_object_id):
\* glGenVertexArrays, glBindVertexArray(vao), SetVertexBufferObject(),
\* glBindVertexArray(0).
SetVertexArrayObject ==
  /\ pc = "buffers"
  /\ vao' = "created"
  /\ vaoGens' = vaoGens + 1
  /\ vbo' = SetVertexBufferObject
  /\ vboGens' = vboGens + 1
  /\ boundVao' = "0"
  /\ Goto("projection")
  /\ UNCHANGED <<glfw, window, shouldClose, keyCallback, createOk, programId,
                 projection_matrix, angle, clock, uniforms, exit_code, frames,
                 projComputes, failed, closeObserved, rendersAfterClose,
                 dispatched, lastEvent, libVars, glCalls, vaoDeletes,
                 vboDeletes, swaps, polls, prevClock, objVars>>

\* The frustum bounds main passes: (-320, 320, 240, -240, 0.1, 10).
MainProjection ==
  ComputeProjectionMatrix(VInt(-320), VInt(320), VInt(240), VInt(-240),
                          V(Norm(1, 10)), VInt(10))

\* const Eigen::Matrix4f projection_matrix = ...; GLfloat angle = 0.0f;
CreateProjection ==
  /\ pc = "projection"
  /\ projection_matrix' = MainProjection
  /\ projComputes' = projComputes + 1
  /\ angle' = EmptyVal
  /\ Goto("loop")
  /\ UNCHANGED <<glfw, window, shouldClose, keyCallback, createOk, programId,
                 vao, vbo, clock, uniforms, exit_code, frames, failed,
                 closeObserved, rendersAfterClose, dispatched, lastEvent,
                 libVars, callVars, objVars>>

-----------------------------------------------------------------------------
(* The frame loop.                                                         *)

\* glfwGetTime() at a clock reading of t ticks, in seconds.
GetTime(t) == V(Norm(t, TicksPerSecond))

\* Variant of the angle update that adds to the angle of the frame before.
FrameAngleAccumulates(time) == VAdd(angle, VMul(time, VInt(10)))

\* angle = static_cast<GLfloat>(glfwGetTime()) * 10.0f
FrameAngle(time) == VMul(time, VInt(10))

\* Variant of RenderScene that uploads a projection it builds itself.
RenderSceneOwnProjection(projection, a) ==
  [model |-> ModelMatrix(a), view |-> Identity, projection |-> Identity]

\* RenderScene: the three matrices it uploads with glUniformMatrix4fv.
RenderScene(projection, a) ==
  [model |-> ModelMatrix(a), view |-> Identity, projection |-> projection]

\* One call to the GPU or shader service: function, named argument, and the
\* first index and count of a draw.
GlCall(fn, arg, first, count) ==
  [fn |-> fn, arg |-> arg, first |-> first, count |-> count]

\* Variant of RenderScene that draws before it uploads the uniforms.
RenderSceneCallsDrawFirst(vertex_array_object_id) ==
  << GlCall("ClearTheFrameBuffer", "", 0, 0),
     GlCall("Use", "shader_program", 0, 0),
     GlCall("glGetUniformLocation", "model", 0, 0),
     GlCall("glGetUniformLocation", "view", 0, 0),
     GlCall("glGetUniformLocation", "projection", 0, 0),
     GlCall("glBindVertexArray", vertex_array_object_id, 0, 0),
     GlCall("glDrawArrays", "GL_TRIANGLES", 0, 3),
     GlCall("glBindVertexArray", "0", 0, 0),
     GlCall("glUniformMatrix4fv", "model", 0, 0),
     GlCall("glUniformMatrix4fv", "view", 0, 0),
     GlCall("glUniformMatrix4fv", "projection", 0, 0) >>

\* RenderScene: the calls it makes, in the order it makes them.
RenderSceneCalls(vertex_array_object_id) ==
  << GlCall("ClearTheFrameBuffer", "", 0, 0),
     GlCall("Use", "shader_program", 0, 0),
     GlCall("glGetUniformLocation", "model", 0, 0),
     GlCall("glGetUniformLocation", "view", 0, 0),
     GlCall("glGetUniformLocation", "projection", 0, 0),
     GlCall("glUniformMatrix4fv", "model", 0, 0),
     GlCall("glUniformMatrix4fv", "view", 0, 0),
     GlCall("glUniformMatrix4fv", "projection", 0, 0),
     GlCall("glBindVertexArray", vertex_array_object_id, 0, 0),
     GlCall("glDrawArrays", "GL_TRIANGLES", 0, 3),
     GlCall("glBindVertexArray", "0", 0, 0) >>

\* The vertex array left bound by a sequence of calls, given the one bound
\* before: glBindVertexArray replaces it, no other call touches it.
RECURSIVE BoundAfter(_, _)
BoundAfter(bound, calls) ==
  IF calls = <<>> THEN bound
  ELSE BoundAfter(IF Head(calls).fn = "glBindVertexArray"
                  THEN Head(calls).arg ELSE bound,
                  Tail(calls))

\* Variant of the loop condition that does not read the flag.
LoopConditionAlways(flag) == TRUE

\* while (!glfwWindowShouldClose(window))
LoopCondition(flag) == ~flag

LoopCheck ==
  /\ pc = "loop"
  /\ IF LoopCondition(shouldClose)
     THEN /\ Goto("render")
          /\ UNCHANGED closeObserved
     ELSE /\ closeObserved' = shouldClose
          /\ Goto("cleanup")
  /\ UNCHANGED <<glfw, window, shouldClose, keyCallback, createOk, programId,
                 vao, vbo, projection_matrix, angle, clock, uniforms,
                 exit_code, frames, projComputes, failed, rendersAfterClose,
                 dispatched, lastEvent, libVars, callVars, objVars>>

\* angle = glfwGetTime() * 10; RenderScene(shader_program, vao, projection, angle)
Frame ==
  /\ pc = "render"
  /\ frames < MaxFrames
  /\ \E t \in clock..MaxClock :
       /\ clock' = t
       /\ angle' = FrameAngle(GetTime(t))
       /\ uniforms' = RenderScene(projection_matrix, FrameAngle(GetTime(t)))
  /\ glCalls' = RenderSceneCalls("vertex_array_object_id")
  /\ boundVao' = BoundAfter(boundVao, RenderSceneCalls("vertex_array_object_id"))
  /\ prevClock' = IF frames = 0 THEN -1 ELSE clock
  /\ frames' = frames + 1
  /\ rendersAfterClose' = rendersAfterClose + (IF shouldClose THEN 1 ELSE 0)
  /\ Goto("swap")
  /\ UNCHANGED <<glfw, window, shouldClose, keyCallback, createOk, programId,
                 vao, vbo, projection_matrix, exit_code, projComputes, failed,
                 closeObserved, dispatched, lastEvent, libVars, vaoGens,
                 vboGens, vaoDeletes, vboDeletes, swaps, polls, objVars>>

\* Variant of the swap that goes back to the loop test without polling.
SwapBuffersSkipsPoll ==
  /\ pc = "swap"
  /\ swaps' = swaps + 1
  /\ Goto("loop")
  /\ UNCHANGED <<glfw, window, shouldClose, keyCallback, createOk, programId,
                 vao, vbo, projection_matrix, angle, clock, uniforms,
                 exit_code, frames, projComputes, failed, closeObserved,
                 rendersAfterClose, dispatched, lastEvent, libVars, glCalls,
                 boundVao, vaoGens, vboGens, vaoDeletes, vboDeletes, polls,
                 prevClock, objVars>>

\* glfwSwapBuffers(window)
SwapBuffers ==
  /\ pc = "swap"
  /\ swaps' = swaps + 1
  /\ Goto("poll")
  /\ UNCHANGED <<glfw, window, shouldClose, keyCallback, createOk, programId,
                 vao, vbo, projection_matrix, angle, clock, uniforms,
                 exit_code, frames, projComputes, failed, closeObserved,
                 rendersAfterClose, dispatched, lastEvent, libVars, glCalls,
                 boundVao, vaoGens, vboGens, vaoDeletes, vboDeletes, polls,
                 prevClock, objVars>>

\* Variant of KeyCallback that reacts to every action of the Escape key.
KeyCallbackAnyAction(flag, key, action) ==
  IF key = "ESCAPE" THEN TRUE ELSE flag

\* KeyCallback: the should-close flag it leaves, given the flag it found.
KeyCallback(flag, key, action) ==
  IF key = "ESCAPE" /\ action = "PRESS" THEN TRUE ELSE flag

\* glfwPollEvents dispatches a key event to the registered KeyCallback.
DispatchKey ==
  /\ pc = "poll"
  /\ keyCallback
  /\ dispatched < MaxEvents
  /\ \E key \in Keys, action \in KeyActions :
       /\ shouldClose' = KeyCallback(shouldClose, key, action)
       /\ lastEvent' = [type |-> "key", key |-> key, action |-> action]
  /\ dispatched' = dispatched + 1
  /\ UNCHANGED <<pc, visited, glfw, window, keyCallback, createOk, programId,
                 vao, vbo, projection_matrix, angle, clock, uniforms,
                 exit_code, frames, projComputes, failed, closeObserved,
                 rendersAfterClose, libVars, callVars, objVars>>

\* glfwPollEvents handles a window-close request: the service sets the flag.
CloseRequest ==
  /\ pc = "poll"
  /\ dispatched < MaxEvents
  /\ shouldClose' = TRUE
  /\ lastEvent' = [type |-> "close", key |-> "NONE", action |-> "NONE"]
  /\ dispatched' = dispatched + 1
  /\ UNCHANGED <<pc, visited, glfw, window, keyCallback, createOk, programId,
                 vao, vbo, projection_matrix, angle, clock, uniforms,
                 exit_code, frames, projComputes, failed, closeObserved,
                 rendersAfterClose, libVars, callVars, objVars>>

\* Variant of the end of an iteration that re-enters main before the loop.
PollEventsRestarts ==
  /\ pc = "poll"
  /\ dispatched' = 0
  /\ polls' = polls + 1
  /\ Goto("projection")
  /\ UNCHANGED <<glfw, window, shouldClose, keyCallback, createOk, programId,
                 vao, vbo, projection_matrix, angle, clock, uniforms,
                 exit_code, frames, projComputes, failed, closeObserved,
                 rendersAfterClose, lastEvent, libVars, glCalls, boundVao,
                 vaoGens, vboGens, vaoDeletes, vboDeletes, swaps, prevClock,
                 objVars>>

\* glfwPollEvents() returns.
PollEvents ==
  /\ pc = "poll"
  /\ dispatched' = 0
  /\ polls' = polls + 1
  /\ Goto("loop")
  /\ UNCHANGED <<glfw, window, shouldClose, keyCallback, createOk, programId,
                 vao, vbo, projection_matrix, angle, clock, uniforms,
                 exit_code, frames, projComputes, failed, closeObserved,
                 rendersAfterClose, lastEvent, libVars, glCalls, boundVao,
                 vaoGens, vboGens, vaoDeletes, vboDeletes, swaps, prevClock,
                 objVars>>

-----------------------------------------------------------------------------
(* Teardown.                                                               *)

\* Variant of the cleanup that sits inside the loop body.
CleanupInLoop ==
  /\ pc = "cleanup"
  /\ vao' = "deleted"
  /\ vaoDeletes' = vaoDeletes + 1
  /\ vbo' = "deleted"
  /\ vboDeletes' = vboDeletes + 1
  /\ Goto(IF vaoDeletes = 0 THEN "loop" ELSE "destroy")
  /\ UNCHANGED <<glfw, window, shouldClose, keyCallback, createOk, programId,
                 projection_matrix, angle, clock, uniforms, exit_code, frames,
                 projComputes, failed, closeObserved, rendersAfterClose,
                 dispatched, lastEvent, libVars, glCalls, boundVao, vaoGens,
                 vboGens, swaps, polls, prevClock, objVars>>

\* glDeleteVertexArrays(1, &vao); glDeleteBuffers(1, &vbo);
Cleanup ==
  /\ pc = "cleanup"
  /\ vao' = "deleted"
  /\ vaoDeletes' = vaoDeletes + 1
  /\ vbo' = "deleted"
  /\ vboDeletes' = vboDeletes + 1
  /\ Goto("destroy")
  /\ UNCHANGED <<glfw, window, shouldClose, keyCallback, createOk, programId,
                 projection_matrix, angle, clock, uniforms, exit_code, frames,
                 projComputes, failed, closeObserved, rendersAfterClose,
                 dispatched, lastEvent, libVars, glCalls, boundVao, vaoGens,
                 vboGens, swaps, polls, prevClock, objVars>>

\* glfwDestroyWindow(window)
DestroyWindow ==
  /\ pc = "destroy"
  /\ window' = "destroyed"
  /\ Goto("terminate")
  /\ UNCHANGED <<glfw, shouldClose, keyCallback, createOk, programId, vao, vbo,
                 projection_matrix, angle, clock, uniforms, exit_code, frames,
                 projComputes, failed, closeObserved, rendersAfterClose,
                 dispatched, lastEvent, libVars, callVars, objVars>>

\* glfwTerminate(); return 0;
Terminate ==
  /\ pc = "terminate"
  /\ glfw' = "terminated"
  /\ exit_code' = <<0>>
  /\ Goto("done")
  /\ UNCHANGED <<window, shouldClose, keyCallback, createOk, programId, vao,
                 vbo, projection_matrix, angle, clock, uniforms, frames,
                 projComputes, failed, closeObserved, rendersAfterClose,
                 dispatched, lastEvent, libVars, callVars, objVars>>

Next ==
  \/ GlfwInit
  \/ CreateWindow
  \/ WindowFailed
  \/ MakeContextCurrent
  \/ GlewInit
  \/ GlewFailed
  \/ CreateShaders
  \/ CheckProgram
  \/ SetVertexArrayObject
  \/ CreateProjection
  \/ LoopCheck
  \/ Frame
  \/ SwapBuffers
  \/ DispatchKey
  \/ CloseRequest
  \/ PollEvents
  \/ Cleanup
  \/ DestroyWindow
  \/ Terminate

Spec == Init /\ [][Next]_vars

-----------------------------------------------------------------------------
(* The transform library on its own: calls with arguments drawn from       *)
(* bounded sets, each satisfying the function's precondition.              *)

Coords == {R(n) : n \in -MaxCoord..MaxCoord}
Depths == {Norm(1, 10), R(1), R(10)}
Fovs == {R(60), R(90), R(120)}
Aspects == {R(1), Norm(4, 3)}

\* Argument lists satisfying the preconditions of the two projection forms.
ProjectionArgs ==
  {<<l, r, t, b, n, f>> : l \in Coords, r \in Coords, t \in Coords,
                          b \in Coords, n \in Depths, f \in Depths}
ValidProjectionArgs ==
  {a \in ProjectionArgs :
     a[1] # a[2] /\ a[3] # a[4] /\ RLess(Zero, a[5]) /\ RLess(a[5], a[6])}
FovArgs ==
  {<<fov, aspect, n, f>> : fov \in Fovs, aspect \in Aspects,
                           n \in Depths, f \in Depths}
ValidFovArgs == {a \in FovArgs : RLess(Zero, a[3]) /\ RLess(a[3], a[4])}

\* Offsets for ComputeTranslation: it has no precondition.
Offsets == {<<x, y, z>> : x \in Coords, y \in Coords, z \in Coords}

\* A library call is pending with its arguments; libResult is <<>> until made.
InitLib ==
  /\ Start("library")
  /\ \/ libCall = "general" /\ libArgs \in ValidProjectionArgs
     \/ libCall = "fov" /\ libArgs \in ValidFovArgs
     \/ libCall = "translation" /\ libArgs \in Offsets
  /\ libResult = <<>>
  /\ NoModel

CallProjection ==
  /\ pc = "library"
  /\ libCall = "general"
  /\ libResult = <<>>
  /\ libResult' = ComputeProjectionMatrix(V(libArgs[1]), V(libArgs[2]),
                                          V(libArgs[3]), V(libArgs[4]),
                                          V(libArgs[5]), V(libArgs[6]))
  /\ UNCHANGED <<mainVars, libCall, libArgs, callVars, objVars>>

CallProjectionFov ==
  /\ pc = "library"
  /\ libCall = "fov"
  /\ libResult = <<>>
  /\ libResult' = ComputeProjectionMatrixFov(V(libArgs[1]), V(libArgs[2]),
                                             V(libArgs[3]), V(libArgs[4]))
  /\ UNCHANGED <<mainVars, libCall, libArgs, callVars, objVars>>

CallTranslation ==
  /\ pc = "library"
  /\ libCall = "translation"
  /\ libResult = <<>>
  /\ libResult' = ComputeTranslation(Vec3(V(libArgs[1]), V(libArgs[2]),
                                          V(libArgs[3])))
  /\ UNCHANGED <<mainVars, libCall, libArgs, callVars, objVars>>

NextLib ==
  \/ CallProjection
  \/ CallProjectionFov
  \/ CallTranslation

SpecLib == InitLib /\ [][NextLib]_vars

-----------------------------------------------------------------------------
(* Class Model on its own: one object, constructed from arguments drawn    *)
(* from bounded sets, and any sequence of calls to its two setters.  No    *)
(* caller holds a pointer from mutable_orientation or mutable_position.    *)

\* Eigen::Vector3f arguments and Eigen::MatrixXf vertex data (rows of 3).
ModelVectors == {<<R(x), R(y), R(z)>> : x \in -1..1, y \in -1..1, z \in -1..1}
VertexData ==
  { <<>>,
    << <<R(-500), R(-500), Zero>>, <<R(500), R(-500), Zero>>,
       <<Zero, R(500), Zero>> >> }

\* Model(orientation, position, vertices)
Model(orientation, position, vertices) ==
  [orientation_ |-> orientation, position_ |-> position,
   vertices_ |-> vertices]

\* Variant of SetOrientation that also moves the object to the same vector.
SetOrientationAndPosition(m, orientation) ==
  [m EXCEPT !.orientation_ = orientation, !.position_ = orientation]

\* void SetOrientation(orientation) { orientation_ = orientation; }
SetOrientation(m, orientation) == [m EXCEPT !.orientation_ = orientation]

\* void Model::SetPosition(position) { position_ = position; }
SetPosition(m, position) == [m EXCEPT !.position_ = position]

\* const Eigen::Vector3f& GetOrientation() / GetPosition()
GetOrientation(m) == m.orientation_
GetPosition(m) == m.position_

InitModel ==
  /\ Start("object")
  /\ LibIdle
  /\ \E o \in ModelVectors, p \in ModelVectors, v \in VertexData :
       /\ modelObj = Model(o, p, v)
       /\ modelArgs = [orientation_ |-> o, position_ |-> p, vertices_ |-> v]
  /\ modelCall = "Model"

CallSetOrientation ==
  /\ pc = "object"
  /\ \E v \in ModelVectors :
       /\ modelObj' = SetOrientation(modelObj, v)
       /\ modelArgs' = [modelArgs EXCEPT !.orientation_ = v]
  /\ modelCall' = "SetOrientation"
  /\ UNCHANGED <<mainVars, libVars, callVars>>

CallSetPosition ==
  /\ pc = "object"
  /\ \E v \in ModelVectors :
       /\ modelObj' = SetPosition(modelObj, v)
       /\ modelArgs' = [modelArgs EXCEPT !.position_ = v]
  /\ modelCall' = "SetPosition"
  /\ UNCHANGED <<mainVars, libVars, callVars>>

NextModel ==
  \/ CallSetOrientation
  \/ CallSetPosition

SpecModel == InitModel /\ [][NextModel]_vars

-----------------------------------------------------------------------------
(* Properties.                                                             *)

Row(a, b, c, d) == <<a, b, c, d>>
Exited == pc = "done"
InitStages == {"glfwInit", "window", "glewInit", "shader"}

\* C1: main returns -1 whenever an initialization stage failed (glfwInit,
\* window creation, glewInit, program id zero), and returns 0 only when the
\* frame loop was entered, the close condition was observed and the teardown
\* (delete vertex array, delete buffer, destroy window, terminate) was run.
C1_ExitCodes ==
  /\ failed # "none" => /\ failed \in InitStages
                        /\ "Running" \notin visited
                        /\ (Exited => exit_code = <<-1>>)
  /\ Exited => exit_code \in {<<0>>, <<-1>>}
  /\ exit_code # <<>> => Exited
  /\ exit_code = <<0>> =>
       /\ failed = "none"
       /\ programId # 0
       /\ "Running" \in visited
       /\ closeObserved
       /\ vao = "deleted"
       /\ vbo = "deleted"
       /\ window = "destroyed"
       /\ glfw = "terminated"

C1_Witness == Exited /\ exit_code = <<0>> /\ frames >= 1 /\ closeObserved

\* C2: on every initialization failure after glfwInit succeeded (window
\* creation, glewInit, program id zero) main terminates the windowing service
\* before it returns, passing through ShuttingDown and never through
\* BuffersReady or Running.
C2_FailureShutsDown ==
  (Exited /\ failed \in {"window", "glewInit", "shader"}) =>
    /\ exit_code = <<-1>>
    /\ glfw = "terminated"
    /\ "ShuttingDown" \in visited
    /\ "BuffersReady" \notin visited
    /\ "Running" \notin visited

\* C3: when shader_program.Create reported failure, the Running state is not
\* reached and no frame is rendered.
C3_CreateFailureStops ==
  ("Running" \in visited \/ frames > 0) => createOk

CloseCleanup ==
  /\ rendersAfterClose <= 1
  /\ closeObserved => shouldClose
  /\ Exited => (vao # "created" /\ vbo # "created")
  /\ (Exited /\ closeObserved) => (vao = "deleted" /\ vbo = "deleted")

\* C4: after the close flag is set at most one further RenderScene call is
\* started, the loop condition that finds the flag set leaves the loop, and
\* main never returns with the vertex array object or the vertex buffer
\* object still allocated.
C4_CloseTerminates ==
  /\ []CloseCleanup
  /\ [][(pc = "loop" /\ shouldClose) => pc' = "cleanup"]_vars

C4_Witness ==
  Exited /\ shouldClose /\ closeObserved /\ frames >= 1 /\ vao = "deleted"

LifecycleOrder ==
  <<"Uninitialized", "WindowReady", "ContextReady", "ShadersReady",
    "BuffersReady", "Running", "ShuttingDown", "Terminated">>
Rank(st) == CHOOSE i \in 1..Len(LifecycleOrder) : LifecycleOrder[i] = st

\* The positions of main() in program order.
PcOrder ==
  <<"init", "create_window", "abort_window", "context", "glew", "abort_glew",
    "shaders", "check_program", "buffers", "projection", "loop", "render",
    "swap", "poll", "cleanup", "destroy", "terminate", "done">>
PcIndex(p) == CHOOSE i \in 1..Len(PcOrder) : PcOrder[i] = p

RunningIsReady ==
  Lifecycle(pc) = "Running" =>
    /\ {LifecycleOrder[i] : i \in 1..5} \subseteq visited
    /\ glfw = "up"
    /\ window = "open"
    /\ keyCallback
    /\ programId # 0
    /\ vao = "created"
    /\ vbo = "created"
    /\ projComputes = 1
    /\ failed = "none"

StepInOrder ==
  /\ Rank(Lifecycle(pc')) >= Rank(Lifecycle(pc))
  /\ (Lifecycle(pc') = Lifecycle(pc) /\ Lifecycle(pc) # "Running")
       => PcIndex(pc') > PcIndex(pc)
  /\ visited' = visited \cup {Lifecycle(pc')}

KeyDispatched == dispatched' = dispatched + 1 /\ lastEvent'.type = "key"

\* C6: KeyCallback sets the should-close flag when the key is Escape and the
\* action is PRESS and leaves it unchanged for every other (key, action);
\* no step of the program resets the flag to false.
C6_EscapeSetsClose ==
  [][/\ shouldClose => shouldClose'
     /\ KeyDispatched =>
          shouldClose' = (shouldClose \/ (/\ lastEvent'.key = "ESCAPE"
                                          /\ lastEvent'.action = "PRESS"))]_vars

C6_Witness ==
  /\ pc = "poll"
  /\ dispatched = 1
  /\ shouldClose
  /\ lastEvent = [type |-> "key", key |-> "ESCAPE", action |-> "PRESS"]

\* The perspective matrix of the frustum (-320, 320, 240, -240, 0.1, 10).
MainProjectionExpected ==
  << Row(V(Norm(1, 3200)), EmptyVal, EmptyVal, EmptyVal),
     Row(EmptyVal, V(Norm(1, 2400)), EmptyVal, EmptyVal),
     Row(EmptyVal, EmptyVal, V(Norm(-101, 99)), V(Norm(-20, 99))),
     Row(EmptyVal, EmptyVal, VInt(-1), EmptyVal) >>

\* C7: the projection matrix is computed once, before the loop, from the
\* bounds (-320, 320, 240, -240, 0.1, 10); every RenderScene call uploads that
\* value and nothing in the loop changes it.
C7_ProjectionFixed ==
  /\ projComputes = (IF "Running" \in visited THEN 1 ELSE 0)
  /\ "Running" \in visited => projection_matrix = MainProjectionExpected
  /\ frames > 0 => uniforms.projection = MainProjectionExpected

C7_Witness ==
  /\ frames >= 2
  /\ pc = "loop"
  /\ lastEvent.type = "key"
  /\ uniforms.projection = MainProjectionExpected

\* The closed form of the perspective matrix for rational frustum bounds.
ExpectedProjection(a) ==
  LET l == a[1]
      r == a[2]
      t == a[3]
      b == a[4]
      n == a[5]
      f == a[6]
  IN  << Row(V(RDiv(RMul(R(2), n), RSub(r, l))), EmptyVal,
             V(RDiv(RAdd(r, l), RSub(r, l))), EmptyVal),
         Row(EmptyVal, V(RDiv(RMul(R(2), n), RSub(t, b))),
             V(RDiv(RAdd(t, b), RSub(t, b))), EmptyVal),
         Row(EmptyVal, EmptyVal, V(RDiv(RNeg(RAdd(f, n)), RSub(f, n))),
             V(RDiv(RMul(R(-2), RMul(f, n)), RSub(f, n)))),
         Row(EmptyVal, EmptyVal, VInt(-1), EmptyVal) >>

\* C8: for near > 0, far > near, left # right, top # bottom the general form
\* returns the closed-form matrix, every other entry 0; the last row of a
\* projection matrix is [0, 0, -1, 0].
C8_ProjectionClosedForm ==
  /\ (libCall = "general" /\ libResult # <<>>) =>
       libResult = ExpectedProjection(libArgs)
  /\ (libCall \in {"general", "fov"} /\ libResult # <<>>) =>
       libResult[4] = Row(EmptyVal, EmptyVal, VInt(-1), EmptyVal)

C8_Witness ==
  /\ libCall = "general"
  /\ libResult # <<>>
  /\ At(libResult, 0, 2) # EmptyVal
  /\ At(libResult, 1, 2) # EmptyVal

\* tan(p * pi) for a rational p; tan(pi / 4) = 1.
TanOfPiTimes(p) == IF p = Norm(1, 4) THEN V(One) ELSE Sym("tan", p, 1)

\* The bounds of the symmetric frustum of a field of view given in degrees:
\* top = near * tan(pi / 180 * field_of_view / 2), right = top * aspect_ratio.
FovTop(a) == VMul(V(a[3]), TanOfPiTimes(RDiv(a[1], R(360))))
FovRight(a) == VMul(FovTop(a), V(a[2]))

\* C9: the field-of-view form equals the general form called with
\* top = near * tan(pi / 180 * field_of_view / 2), bottom = -top,
\* right = top * aspect_ratio, left = -right.
C9_FovEqualsGeneral ==
  (libCall = "fov" /\ libResult # <<>>) =>
    libResult = ComputeProjectionMatrix(VNeg(FovRight(libArgs)),
                                        FovRight(libArgs), FovTop(libArgs),
                                        VNeg(FovTop(libArgs)), V(libArgs[3]),
                                        V(libArgs[4]))

\* translation x rotation for a rotation by x about UnitZ and the offset
\* (0, 0, sin(x / 2) - 1), entry by entry.
ExpectedModel(x) ==
  << Row(Cos(x), VNeg(Sin(x)), EmptyVal, EmptyVal),
     Row(Sin(x), Cos(x), EmptyVal, EmptyVal),
     Row(EmptyVal, EmptyVal, V(One), VSub(Sin(RMul(Half, x)), V(One))),
     Row(EmptyVal, EmptyVal, EmptyVal, V(One)) >>

ModelAtZero ==
  << Row(V(One), EmptyVal, EmptyVal, EmptyVal),
     Row(EmptyVal, V(One), EmptyVal, EmptyVal),
     Row(EmptyVal, EmptyVal, V(One), VInt(-1)),
     Row(EmptyVal, EmptyVal, EmptyVal, V(One)) >>

\* C10: the model matrix a frame uploads is translation x rotation with
\* offset (0, 0, sin(0.5 * angle) - 1) and a rotation by angle about UnitZ; at
\* angle 0 it is the identity except for the fourth column (0, 0, -1, 1).
C10_ModelMatrix ==
  frames > 0 =>
    /\ IsConst(angle)
    /\ uniforms.model = ExpectedModel(ConstOf(angle))
    /\ angle = EmptyVal => uniforms.model = ModelAtZero

C10_Witness ==
  /\ frames = 1
  /\ angle = EmptyVal
  /\ uniforms.model = ModelAtZero

\* C11: ComputeTranslation(offset) is the identity matrix with its fourth
\* column replaced by (offset.x, offset.y, offset.z, 1); for the zero offset it
\* is the identity matrix.
TranslationDone == libCall = "translation" /\ libResult # <<>>

ExpectedTranslation(x, y, z) ==
  << Row(V(One), EmptyVal, EmptyVal, V(x)),
     Row(EmptyVal, V(One), EmptyVal, V(y)),
     Row(EmptyVal, EmptyVal, V(One), V(z)),
     Row(EmptyVal, EmptyVal, EmptyVal, V(One)) >>

C11_Translation ==
  TranslationDone =>
    /\ libResult = ExpectedTranslation(libArgs[1], libArgs[2], libArgs[3])
    /\ (libArgs = <<Zero, Zero, Zero>> => libResult = Identity)

C11_Witness ==
  /\ TranslationDone
  /\ libArgs = <<R(1), R(-2), R(2)>>
  /\ At(libResult, 0, 3) = V(R(1))
  /\ At(libResult, 3, 0) = EmptyVal

\* C12: after any sequence of SetOrientation / SetPosition calls on a Model,
\* GetOrientation returns the argument of the most recent SetOrientation and
\* GetPosition that of the most recent SetPosition (the constructor's value
\* if there was none); SetOrientation leaves position and vertex data
\* unchanged, SetPosition leaves orientation and vertex data unchanged, and
\* every vector is accepted.
GettersReturnLastArguments ==
  pc = "object" =>
    /\ GetOrientation(modelObj) = modelArgs.orientation_
    /\ GetPosition(modelObj) = modelArgs.position_
    /\ modelObj.vertices_ = modelArgs.vertices_
    /\ \A v \in ModelVectors :
         /\ GetOrientation(SetOrientation(modelObj, v)) = v
         /\ GetPosition(SetPosition(modelObj, v)) = v

SettersTouchOwnField ==
  /\ modelCall' = "SetOrientation" =>
       /\ GetPosition(modelObj') = GetPosition(modelObj)
       /\ modelObj'.vertices_ = modelObj.vertices_
  /\ modelCall' = "SetPosition" =>
       /\ GetOrientation(modelObj') = GetOrientation(modelObj)
       /\ modelObj'.vertices_ = modelObj.vertices_

C12_ModelSetters == []GettersReturnLastArguments /\ [][SettersTouchOwnField]_vars

C12_Witness ==
  /\ modelCall = "SetOrientation"
  /\ GetOrientation(modelObj) = <<R(1), Zero, R(-1)>>
  /\ GetPosition(modelObj) = <<Zero, R(1), R(1)>>
  /\ modelObj.vertices_ # <<>>

\* C13: each iteration of the frame loop performs, in this order and exactly
\* once each, the close-condition check, RenderScene, the buffer swap and the
\* event poll; the close flag is read only at the check and changes only
\* inside the event poll, so a frame whose check passed completes render,
\* swap and poll before the flag is examined again.
IterationCounts ==
  /\ pc \in {"loop", "render"} => frames = swaps /\ swaps = polls
  /\ pc = "swap" => frames = swaps + 1 /\ swaps = polls
  /\ pc = "poll" => frames = swaps /\ swaps = polls + 1

IterationStep ==
  /\ pc = "loop" => /\ pc' = (IF shouldClose THEN "cleanup" ELSE "render")
                    /\ UNCHANGED <<frames, swaps, polls>>
  /\ pc = "render" => /\ pc' = "swap"
                      /\ frames' = frames + 1
                      /\ UNCHANGED <<swaps, polls>>
  /\ pc = "swap" => /\ pc' = "poll"
                    /\ swaps' = swaps + 1
                    /\ UNCHANGED <<frames, polls>>
  /\ pc = "poll" => \/ pc' = "poll" /\ UNCHANGED <<frames, swaps, polls>>
                    \/ /\ pc' = "loop"
                       /\ polls' = polls + 1
                       /\ UNCHANGED <<frames, swaps>>
  /\ pc' = "render" => pc = "loop" /\ ~shouldClose
  /\ shouldClose' # shouldClose => pc = "poll" /\ pc' = "poll"
  /\ lastEvent' # lastEvent => pc = "poll"
  /\ closeObserved' # closeObserved => pc = "loop"

C13_IterationOrder == []IterationCounts /\ [][IterationStep]_vars

C13_Witness ==
  /\ pc = "loop"
  /\ frames = 2
  /\ swaps = 2
  /\ polls = 2
  /\ shouldClose
  /\ ~closeObserved

\* C14: within every RenderScene call the shader program is put in use
\* before anything is uploaded, the three matrices are then uploaded to the
\* slots "model", "view" and "projection" (view being the identity), the draw
\* call comes after all three uploads, exactly once, for 3 vertices from
\* index 0 as triangles with the vertex array created at startup bound, and
\* the vertex array is unbound when RenderScene returns.
CallsTo(fn, arg) ==
  {i \in DOMAIN glCalls : glCalls[i].fn = fn /\ glCalls[i].arg = arg}
CallsOf(fn) == {i \in DOMAIN glCalls : glCalls[i].fn = fn}
UniformSlots == {"model", "view", "projection"}
Uploads == CallsOf("glUniformMatrix4fv")
Draws == CallsOf("glDrawArrays")

RenderSceneOrder ==
  /\ Cardinality(CallsTo("Use", "shader_program")) = 1
  /\ \A u \in CallsOf("Use") : \A i \in Uploads \cup Draws : u < i
  /\ \A slot \in UniformSlots :
       Cardinality(CallsTo("glUniformMatrix4fv", slot)) = 1
  /\ \A i \in Uploads : glCalls[i].arg \in UniformSlots
  /\ uniforms.view = Identity
  /\ uniforms.projection = projection_matrix
  /\ Cardinality(Draws) = 1
  /\ \A d \in Draws :
       /\ \A i \in Uploads : i < d
       /\ glCalls[d] = GlCall("glDrawArrays", "GL_TRIANGLES", 0, 3)
       /\ BoundAfter("0", SubSeq(glCalls, 1, d - 1)) = "vertex_array_object_id"
  /\ vaoGens = 1
  /\ BoundAfter("vertex_array_object_id", glCalls) = "0"

C14_RenderSceneOrder ==
  /\ frames >= 1 => RenderSceneOrder
  /\ pc = "swap" => boundVao = "0"

C14_Witness ==
  /\ pc = "swap"
  /\ frames = 2
  /\ Len(glCalls) > 0
  /\ boundVao = "0"
  /\ uniforms.model # Identity

\* C15: the angle a frame uses is the time read at the start of that frame
\* times 10, whatever the angle of earlier frames and however many frames
\* were rendered; two frames that read the same time render the same model
\* matrix.
TenTimesSeconds(ticks) == Norm(10 * ticks, TicksPerSecond)

AngleOfClock ==
  frames > 0 =>
    /\ angle = V(TenTimesSeconds(clock))
    /\ uniforms.model = ExpectedModel(TenTimesSeconds(clock))

SameTimeSameModel ==
  (frames > 0 /\ frames' = frames + 1 /\ clock' = clock) =>
    /\ angle' = angle
    /\ uniforms'.model = uniforms.model

C15_AngleFromTime == []AngleOfClock /\ [][SameTimeSameModel]_vars

C15_Witness ==
  /\ pc = "swap"
  /\ frames = 3
  /\ prevClock = clock
  /\ clock = 2
  /\ angle # EmptyVal

\* C16 as stated: a Model entity is created once at startup with fixed
\* initial orientation and position, is owned by main, and is mutated through
\* its setters by the render loop in each frame.
C16_ModelMutatedEachFrame ==
  /\ Lifecycle(pc) = "Running" => modelObj # <<>>
  /\ frames > 0 => modelCall \in {"SetOrientation", "SetPosition"}

\* C16 as amended: class Model is defined, but main never constructs a Model
\* and the render loop calls no setter: no Model object exists at any point
\* of main, and each frame's model matrix comes from the frame's angle alone.
C16_NoModelObject ==
  /\ modelObj = <<>>
  /\ modelArgs = <<>>
  /\ modelCall = "none"
  /\ frames > 0 => uniforms.model = ModelMatrix(angle)

C16_Witness ==
  /\ pc = "poll"
  /\ frames = 2
  /\ modelObj = <<>>
  /\ modelCall = "none"
  /\ uniforms.model # ModelAtZero

\* C17: the vertex array and the vertex buffer are each created at most once
\* and deleted at most once, deleted only after they were created and after
\* the frame loop has exited; no bind or draw refers to a handle before its
\* creation or after its deletion; nothing is called once glfwTerminate has
\* run.
LoopPositions == {"loop", "render", "swap", "poll"}

HandleLifecycle ==
  /\ vaoGens <= 1 /\ vboGens <= 1
  /\ vaoDeletes <= vaoGens /\ vboDeletes <= vboGens
  /\ vao = "none" <=> vaoGens = 0
  /\ vbo = "none" <=> vboGens = 0
  /\ vao = "deleted" <=> vaoDeletes = 1
  /\ vbo = "deleted" <=> vboDeletes = 1
  /\ (vaoDeletes > 0 \/ vboDeletes > 0) =>
       closeObserved /\ pc \notin LoopPositions
  /\ boundVao # "0" => vao = "created"

HandleUse ==
  /\ glfw # "terminated"
  /\ frames' # frames =>
       /\ vao = "created" /\ vbo = "created"
       /\ vao' = "created" /\ vbo' = "created"
       /\ glfw = "up" /\ window = "open"
  /\ vaoGens' # vaoGens => vao = "none" /\ vao' = "created" /\ glfw = "up"
  /\ vboGens' # vboGens => vbo = "none" /\ vbo' = "created" /\ glfw = "up"
  /\ (vaoDeletes' # vaoDeletes \/ vboDeletes' # vboDeletes) =>
       /\ vao = "created" /\ vbo = "created"
       /\ pc = "cleanup" /\ glfw = "up" /\ window = "open"

C17_HandleSafety == []HandleLifecycle /\ [][HandleUse]_vars

C17_Witness ==
  /\ pc = "done"
  /\ glfw = "terminated"
  /\ frames = 2
  /\ vaoGens = 1 /\ vboGens = 1
  /\ vaoDeletes = 1 /\ vboDeletes = 1

=============================================================================
